---------------------------- MODULE Spec2Model ----------------------------
(***************************************************************************)
(* A model of goreadability: the text statistics of package stats          *)
(* (CountSymbols, CountCharacters, CountWords, CountSentences,             *)
(* CountSyllables, CountAllStats) and the readability formulas built on    *)
(* them (cli.CalculateCLI, ari.CalculateAri, ari.ConvertAriToGrades,       *)
(* gulpease.Gulpease, it.CalcGulpease).                                    *)
(*                                                                         *)
(* Representation.                                                         *)
(*  - A Go string is a sequence of runes.  An ASCII rune is the one-letter *)
(*    string of its character ("a", ".", "\n"); a rune outside ASCII, or    *)
(*    one a TLA+ string cannot hold, is named by its code point            *)
(*    ("U+023A", "U+000B").  Utf8(r) gives the bytes of a rune, so that    *)
(*    len(s) and s[i] (bytes) differ from the rune count.                  *)
(*  - Go's int and uint are 64 bits wide.  A value of type uint is the     *)
(*    record [wraps |-> k, val |-> v] that stands for k * 2^64 + v, with   *)
(*    k = 0 and v >= 0 for a number the program computed without leaving   *)
(*    the type, and k = 1 and v < 0 for the conversion of the negative int *)
(*    v (the number 2^64 + v, which TLC's integers cannot hold).           *)
(*  - calls holds the concurrent callers of the functions and tables the    *)
(*    two package-level maps, which every caller reads in place.           *)
(*  - A float64 score is held exactly as a rational or as a whole number   *)
(*    of tenths; where the exact value lies on a rounding boundary, the    *)
(*    float64 evaluation may fall on either side and both are outcomes.    *)
(***************************************************************************)
EXTENDS Integers, Sequences, FiniteSets, TLC

VARIABLES text, score, op, ret, calls, tables

vars == <<text, score, op, ret, calls, tables>>

----------------------------------------------------------------------------
(* Runes, bytes and character classes (unicode, unicode/utf8)              *)

LowerLetters ==
    <<"a","b","c","d","e","f","g","h","i","j","k","l","m",
      "n","o","p","q","r","s","t","u","v","w","x","y","z">>

UpperLetters ==
    <<"A","B","C","D","E","F","G","H","I","J","K","L","M",
      "N","O","P","Q","R","S","T","U","V","W","X","Y","Z">>

Range(f) == {f[i] : i \in DOMAIN f}

\* LATIN CAPITAL LETTER A WITH STROKE (two bytes) and its lower case (three).
AStroke == "U+023A"
AStrokeLower == "U+2C65"

\* The spaces of Latin-1 that have no escape in a TLA+ string: vertical tab
\* (ASCII, one byte), NEXT LINE and NO-BREAK SPACE (two bytes each).
VerticalTab == "U+000B"
NextLine == "U+0085"
NoBreakSpace == "U+00A0"

\* The UTF-8 encoding of a rune: one byte for ASCII (the byte is written as
\* the rune itself), two or three opaque bytes otherwise.
Utf8(r) ==
    CASE r = AStroke -> <<"0xC8", "0xBA">>
      [] r = AStrokeLower -> <<"0xE2", "0xB1", "0xA5">>
      [] r = NextLine -> <<"0xC2", "0x85">>
      [] r = NoBreakSpace -> <<"0xC2", "0xA0">>
      [] OTHER -> <<r>>

RECURSIVE Bytes(_)
\* The bytes of a string: what len(s), s[i] and s[i:] of Go work on.
Bytes(s) == IF s = <<>> THEN <<>> ELSE Utf8(Head(s)) \o Bytes(Tail(s))

\* len(s)
ByteLen(s) == Len(Bytes(s))

\* utf8.RuneCountInString(s)
RuneCountInString(s) == Len(s)

IsLetter(r) ==
    r \in Range(LowerLetters) \cup Range(UpperLetters)
          \cup {AStroke, AStrokeLower}

IsDigit(r) == r \in {"0","1","2","3","4","5","6","7","8","9"}

\* unicode.IsSpace: '\t', '\n', '\v', '\f', '\r', ' ', U+0085 and U+00A0 (the
\* spaces of the other planes are not among the runes of the model).
IsSpace(r) ==
    r \in {" ", "\n", "\t", "\r", "\f", VerticalTab, NextLine, NoBreakSpace}

\* unicode.ToLower
ToLowerRune(r) ==
    IF r \in Range(UpperLetters)
    THEN LowerLetters[CHOOSE i \in DOMAIN UpperLetters : UpperLetters[i] = r]
    ELSE IF r = AStroke THEN AStrokeLower ELSE r

\* strings.ToLower
ToLower(s) == [i \in DOMAIN s |-> ToLowerRune(s[i])]

\* isVowel: strings.ContainsRune("aeiouy", char)
isVowel(char) == char \in {"a", "e", "i", "o", "u", "y"}

----------------------------------------------------------------------------
(* package strings                                                         *)

RECURSIVE CountFrom(_, _, _)
CountFrom(s, substr, i) ==
    IF i + Len(substr) - 1 > Len(s) THEN 0
    ELSE IF SubSeq(s, i, i + Len(substr) - 1) = substr
         THEN 1 + CountFrom(s, substr, i + Len(substr))
         ELSE CountFrom(s, substr, i + 1)

\* strings.Count(s, substr) for a non-empty substr: the number of
\* non-overlapping instances, scanning from the left.
Count(s, substr) == CountFrom(s, substr, 1)

\* strings.ReplaceAll(s, "\n", " ")
ReplaceAll(s, old, new) == [i \in DOMAIN s |-> IF s[i] = old THEN new ELSE s[i]]

RECURSIVE FieldsFrom(_, _, _)
FieldsFrom(s, i, cur) ==
    IF i > Len(s)
    THEN IF cur = <<>> THEN <<>> ELSE <<cur>>
    ELSE IF IsSpace(s[i])
         THEN (IF cur = <<>> THEN <<>> ELSE <<cur>>) \o FieldsFrom(s, i + 1, <<>>)
         ELSE FieldsFrom(s, i + 1, Append(cur, s[i]))

\* strings.Fields(s): the maximal runs of non-space runes, in order.
Fields(s) == FieldsFrom(s, 1, <<>>)

----------------------------------------------------------------------------
(* Go's integer types                                                      *)

\* uint(x) of an int x: the bit pattern is kept, so a negative x becomes
\* 2^64 + x.
ToUint(x) == [wraps |-> IF x < 0 THEN 1 ELSE 0, val |-> x]

\* A uint that is the number n (n an integer TLC can hold).
UintIs(u, n) == u.wraps = 0 /\ u.val = n

\* u <= n for a uint u and a non-negative integer n < 2^31.
UintLeq(u, n) == u.wraps = 0 /\ u.val <= n

\* a + b of two uint, modulo 2^64 (the val fields of the model stay small, so
\* the sum is below 2^64 exactly when it is not negative).
UintAdd(a, b) == ToUint(a.val + b.val)

----------------------------------------------------------------------------
(* package stats                                                           *)

\* The abbreviation table: key, and the points it takes off the count.
abbreviations ==
    << [key |-> <<"u",".","s",".">>, points |-> 2],
       [key |-> <<"m","r",".">>, points |-> 1],
       [key |-> <<"m","e","s","s","r","s",".">>, points |-> 1],
       [key |-> <<"m","r","s",".">>, points |-> 1],
       [key |-> <<"m","m","e","s",".">>, points |-> 1],
       [key |-> <<"m","s",".">>, points |-> 1],
       [key |-> <<"d","r",".">>, points |-> 1],
       [key |-> <<"p","r","o","f",".">>, points |-> 1],
       [key |-> <<"c","a","p","t",".">>, points |-> 1],
       [key |-> <<"s","t",".">>, points |-> 1],
       [key |-> <<"r","e","v","d",".">>, points |-> 1],
       [key |-> <<"r","e","v",".">>, points |-> 1],
       [key |-> <<"j","a","n",".">>, points |-> 1],
       [key |-> <<"f","e","b",".">>, points |-> 1],
       [key |-> <<"m","a","r",".">>, points |-> 1],
       [key |-> <<"a","p","r",".">>, points |-> 1],
       [key |-> <<"a","u","g",".">>, points |-> 1],
       [key |-> <<"s","e","p","t",".">>, points |-> 1],
       [key |-> <<"o","c","t",".">>, points |-> 1],
       [key |-> <<"n","o","v",".">>, points |-> 1],
       [key |-> <<"d","e","c",".">>, points |-> 1],
       [key |-> <<"a",".","m",".">>, points |-> 2],
       [key |-> <<"p",".","m",".">>, points |-> 2],
       [key |-> <<"i",".","e",".">>, points |-> 2],
       [key |-> <<"e",".","g",".">>, points |-> 2],
       [key |-> <<"a",".","d",".">>, points |-> 2],
       [key |-> <<"b",".","c",".">>, points |-> 2],
       [key |-> <<"b",".","c",".","e",".">>, points |-> 3],
       [key |-> <<"c",".","e",".">>, points |-> 2],
       [key |-> <<"n",".","b",".">>, points |-> 2] >>

\* CountSymbols: runes, less the new lines, less two for every "...".
CountSymbolsAddsEllipsis(s) ==
    IF ByteLen(s) = 0 THEN ToUint(0)
    ELSE ToUint(RuneCountInString(s) - Count(s, <<"\n">>)
                + 2 * Count(s, <<".", ".", ".">>))

CountSymbols(s) ==
    IF ByteLen(s) = 0 THEN ToUint(0)
    ELSE LET ellipsis == Count(s, <<".", ".", ".">>)
             newLines == Count(s, <<"\n">>)
             total == RuneCountInString(s) - newLines - 2 * ellipsis
         IN ToUint(total)

\* CountCharacters: the runes that are letters or digits.
CountCharacters(s) ==
    IF ByteLen(s) = 0 THEN ToUint(0)
    ELSE ToUint(Cardinality({i \in DOMAIN s : IsDigit(s[i]) \/ IsLetter(s[i])}))

\* CountWords: the fields of s, new lines replaced by spaces first.
CountWords(s) ==
    IF ByteLen(s) = 0 THEN ToUint(0)
    ELSE LET t == IF Count(s, <<"\n">>) > 0 THEN ReplaceAll(s, "\n", " ") ELSE s
         IN ToUint(Len(Fields(t)))

RECURSIVE PointsInAbbreviations(_, _)
\* The loop of CountSentences over the abbreviation table (entries i..end):
\* count * points of every key that occurs in s, as written, in s.
PointsInAbbreviations(s, i) ==
    IF i > Len(abbreviations) THEN 0
    ELSE LET count == Count(s, abbreviations[i].key)
         IN (IF count > 0 THEN count * abbreviations[i].points ELSE 0)
            + PointsInAbbreviations(s, i + 1)

CountSentences(s) ==
    IF ByteLen(s) = 0 THEN ToUint(0)
    ELSE LET points == Count(s, <<".">>)
             exclamations == Count(s, <<"!">>)
             questions == Count(s, <<"?">>)
             pointsInAbbreviations == PointsInAbbreviations(s, 1)
         IN ToUint(points + exclamations + questions - pointsInAbbreviations)

RECURSIVE VowelGroups(_, _, _)
\* The first loop of CountSyllables: the vowels that follow no vowel.
VowelGroups(lower_case, i, prev_is_vowel) ==
    IF i > Len(lower_case) THEN 0
    ELSE IF isVowel(lower_case[i])
         THEN (IF prev_is_vowel THEN 0 ELSE 1) + VowelGroups(lower_case, i + 1, TRUE)
         ELSE VowelGroups(lower_case, i + 1, FALSE)

\* The result of a call that can panic (index out of range).
Panic == [panic |-> TRUE, value |-> ToUint(0)]
Returns(v) == [panic |-> FALSE, value |-> v]

\* s[i] and s[i:] of Go, i counted from 0, on the bytes b of s.
InRange(b, i) == i >= 0 /\ i < Len(b)
ByteAt(b, i) == b[i + 1]
SliceOk(b, i) == i >= 0 /\ i <= Len(b)
SliceFrom(b, i) == SubSeq(b, i + 1, Len(b))

\* CountSyllables of stats (the version with the len > 2 guard).  Every index
\* is len(lower_case) minus a constant, applied to the bytes of s itself.
CountSyllables(s) ==
    LET lower_case == ToLower(s)
        n == ByteLen(lower_case)
        b == Bytes(s)
        groups == VowelGroups(lower_case, 1, FALSE)
    IN IF ~InRange(b, n - 1) THEN Panic
       ELSE
       LET afterE == IF ByteAt(b, n - 1) = "e" THEN groups - 1 ELSE groups
           syllables ==
             IF n > 2
             THEN IF SliceFrom(b, n - 2) = <<"l", "e">>
                     \/ SliceFrom(b, n - 3) = <<"l", "e", "s">>
                  THEN IF ~isVowel(ByteAt(b, n - 3)) THEN afterE + 1 ELSE afterE
                  ELSE IF SliceFrom(b, n - 3) = <<"e", "d">>
                  THEN IF ByteAt(b, n - 3) = "t" THEN afterE + 1
                       ELSE IF isVowel(ByteAt(b, n - 3)) THEN afterE - 1
                       ELSE afterE
                  ELSE IF SliceFrom(b, n - 2) = <<"e", "s">>
                  THEN IF ~isVowel(ByteAt(b, n - 3))
                          /\ (ByteAt(b, n - 3) # "w" \/ ByteAt(b, n - 3) # "x"
                              \/ ByteAt(b, n - 3) # "y")
                       THEN afterE + 1 ELSE afterE
                  ELSE afterE
             ELSE afterE
       IN Returns(ToUint(IF syllables = 0 THEN 1 ELSE syllables))

\* CountSyllables of src/stats/stats.go: no length guard before the suffix
\* checks, and a fourth suffix, "ce".  The || of Go evaluates s[n-3:] only
\* when s[n-2:] is not "le".
CountSyllablesNoGuard(s) ==
    LET lower_case == ToLower(s)
        n == ByteLen(lower_case)
        b == Bytes(s)
        groups == VowelGroups(lower_case, 1, FALSE)
    IN IF ~InRange(b, n - 1) THEN Panic
       ELSE IF ~SliceOk(b, n - 2) THEN Panic
       ELSE IF SliceFrom(b, n - 2) # <<"l", "e">> /\ ~SliceOk(b, n - 3) THEN Panic
       ELSE IF ~InRange(b, n - 3) THEN Panic
       ELSE
       LET afterE == IF ByteAt(b, n - 1) = "e" THEN groups - 1 ELSE groups
           syllables ==
             IF SliceFrom(b, n - 2) = <<"l", "e">>
                \/ SliceFrom(b, n - 3) = <<"l", "e", "s">>
             THEN IF ~isVowel(ByteAt(b, n - 3)) THEN afterE + 1 ELSE afterE
             ELSE IF SliceFrom(b, n - 3) = <<"e", "d">>
             THEN IF ByteAt(b, n - 3) = "t" THEN afterE + 1
                  ELSE IF isVowel(ByteAt(b, n - 3)) THEN afterE - 1
                  ELSE afterE
             ELSE IF SliceFrom(b, n - 2) = <<"e", "s">>
             THEN IF ~isVowel(ByteAt(b, n - 3))
                     /\ (ByteAt(b, n - 3) # "w" \/ ByteAt(b, n - 3) # "x"
                         \/ ByteAt(b, n - 3) # "y")
                  THEN afterE + 1 ELSE afterE
             ELSE IF SliceFrom(b, n - 2) = <<"c", "e">>
             THEN IF ~isVowel(ByteAt(b, n - 3)) THEN afterE + 1 ELSE afterE
             ELSE afterE
       IN Returns(ToUint(IF syllables = 0 THEN 1 ELSE syllables))

RECURSIVE SumSyllables(_, _)
\* The loop of CountAllStats: result.Syllables += CountSyllables(word), from
\* word i on; a panic of CountSyllables ends the call.
SumSyllables(words, i) ==
    IF i > Len(words) THEN Returns(ToUint(0))
    ELSE LET one == CountSyllables(words[i])
             rest == SumSyllables(words, i + 1)
         IN IF one.panic \/ rest.panic THEN Panic
            ELSE Returns(UintAdd(one.value, rest.value))

CountAllStats(s) ==
    LET words == Fields(s)
        syllables == SumSyllables(words, 1)
    IN IF syllables.panic THEN Panic
       ELSE Returns([Symbols |-> CountSymbols(s),
                     Characters |-> CountCharacters(s),
                     Words |-> CountWords(s),
                     Sentences |-> CountSentences(s),
                     Syllables |-> syllables.value])

----------------------------------------------------------------------------
(* float64 arithmetic of the formulas, on exact rationals num / den, den > 0 *)

\* math.Round of a value computed without rounding error: to the nearest
\* whole number, halves away from zero.
Round(num, den) ==
    LET q == num \div den
        r == num % den
    IN IF 2 * r > den THEN q + 1
       ELSE IF 2 * r < den THEN q
       ELSE IF num >= 0 THEN q + 1 ELSE q

\* math.Round of a value that carries the rounding error of constants such
\* as 5.88: the nearest whole number, and either neighbour when the exact
\* value lies half-way.
RoundInexact(num, den) ==
    LET q == num \div den
        r == num % den
    IN IF 2 * r > den THEN {q + 1}
       ELSE IF 2 * r < den THEN {q}
       ELSE {q, q + 1}

\* math.Ceil of a value that carries rounding error: the next whole number,
\* and either k or k + 1 when the exact value is the whole number k.
CeilInexact(num, den) ==
    LET q == num \div den
        r == num % den
    IN IF r = 0 THEN {q, q + 1} ELSE {q + 1}

\* uint(f) of a whole float64 f: the number itself when it is not negative;
\* Go leaves the conversion of a value outside the type to the
\* implementation, which wraps (amd64) or saturates at 0 (arm64).
UintOfFloat(f) == IF f >= 0 THEN {ToUint(f)} ELSE {ToUint(f), ToUint(0)}

\* A score the model does not compute: float64(sentences) of a sentence
\* count that wrapped is about 2^64.
Beyond == "beyond 2^63"

\* The (value, error) pair a formula returns, with the counts (uint, before
\* float64(...)) that the divisions it evaluated divide by.
Failure(msg) == [err |-> msg, score |-> 0, divisors |-> {}]
Score(x, ds) == [err |-> "nil", score |-> x, divisors |-> ds]

----------------------------------------------------------------------------
(* package cli                                                             *)

\* CalculateCLI: the score in tenths (math.Round(cli*10) / 10).  The message
\* of the source has an en dash where this one has a hyphen.
CalculateCLI(s) ==
    IF ByteLen(s) = 0 THEN {Failure("Empty string.")}
    ELSE
    LET characters == CountCharacters(s).val
        words == CountWords(s).val
        sentences == CountSentences(s)
    IN IF words = 0
       THEN {Failure("No words were parsed. Cannot calculate Coleman-Liau index (CLI).")}
       ELSE IF sentences.wraps = 1 THEN {Score(Beyond, {CountWords(s)})}
       ELSE {Score([tenths |-> t], {CountWords(s)}) :
               t \in RoundInexact(588 * characters - 2960 * sentences.val
                                    - 1580 * words, 10 * words)}

----------------------------------------------------------------------------
(* package ari                                                             *)

ariTable ==
    << [age |-> "5-6", gradeLevel |-> "Kindengarden"],
       [age |-> "6-7", gradeLevel |-> "First Grade"],
       [age |-> "7-8", gradeLevel |-> "Second Grade"],
       [age |-> "8-9", gradeLevel |-> "Third Grade"],
       [age |-> "9-10", gradeLevel |-> "Forth Grade"],
       [age |-> "10-11", gradeLevel |-> "Fifth Grade"],
       [age |-> "11-12", gradeLevel |-> "Sixth Grade"],
       [age |-> "12-13", gradeLevel |-> "Seventh Grade"],
       [age |-> "13-14", gradeLevel |-> "Eighth Grade"],
       [age |-> "14-15", gradeLevel |-> "Ninth Grade"],
       [age |-> "15-16", gradeLevel |-> "Tenth Grade"],
       [age |-> "16-17", gradeLevel |-> "Eleventh Grade"],
       [age |-> "17-18", gradeLevel |-> "Twelfth Grade"],
       [age |-> "18-22", gradeLevel |-> "College student"] >>

\* CalculateAri without the test of sentences.
CalculateAriChecksWordsOnly(s) ==
    IF ByteLen(s) = 0 THEN {Failure("Empty string.")}
    ELSE
    LET characters == CountCharacters(s).val
        words == CountWords(s).val
        sentences == CountSentences(s)
    IN IF words = 0
       THEN {Failure("No words of sentences in text. Cannot calculate ARI")}
       ELSE IF sentences.wraps = 1 \/ sentences.val = 0
       THEN {Score(Beyond, {CountWords(s), sentences})}
       ELSE {Score(k, {CountWords(s), sentences}) :
               k \in CeilInexact(471 * characters * sentences.val
                                   + 50 * words * words
                                   - 2143 * words * sentences.val,
                                 100 * words * sentences.val)}

\* CalculateAri: int(math.Ceil(ariFloat)).  With a sentence count that
\* wrapped, words/sentences is below 2^-60 and is lost in the sum.
CalculateAri(s) ==
    IF ByteLen(s) = 0 THEN {Failure("Empty string.")}
    ELSE
    LET characters == CountCharacters(s).val
        words == CountWords(s).val
        sentences == CountSentences(s)
    IN IF words = 0 \/ (sentences.wraps = 0 /\ sentences.val = 0)
       THEN {Failure("No words of sentences in text. Cannot calculate ARI")}
       ELSE IF sentences.wraps = 1
       THEN {Score(k, {CountWords(s), sentences}) :
               k \in CeilInexact(471 * characters - 2143 * words, 100 * words)}
       ELSE {Score(k, {CountWords(s), sentences}) :
               k \in CeilInexact(471 * characters * sentences.val
                                   + 50 * words * words
                                   - 2143 * words * sentences.val,
                                 100 * words * sentences.val)}

ConvertAriToGradesFrom14(s) ==
    IF s >= 14 THEN <<"22+", "Professor level">>
    ELSE IF s \notin DOMAIN ariTable THEN <<"Unknown", "Unknown">>
    ELSE <<ariTable[s].age, ariTable[s].gradeLevel>>

ConvertAriToGrades(s) ==
    IF s > 14 THEN <<"22+", "Professor level">>
    ELSE IF s \notin DOMAIN ariTable THEN <<"Unknown", "Unknown">>
    ELSE <<ariTable[s].age, ariTable[s].gradeLevel>>

----------------------------------------------------------------------------
(* packages gulpease and it                                                *)

\* Gulpease: uint(math.Round(89 + (300*sentences - 10*characters)/words)).
Gulpease(s) ==
    IF ByteLen(s) = 0 THEN {Failure("Empty string.")}
    ELSE
    LET words == CountWords(s).val
    IN IF words = 0
       THEN {Failure("No words were parsed. Cannot calculate Gulpease readability index.")}
       ELSE
       LET characters == CountCharacters(s).val
           sentences == CountSentences(s)
       IN IF sentences.wraps = 1 THEN {Score(Beyond, {CountWords(s)})}
          ELSE {Score(u, {CountWords(s)}) :
                  u \in UintOfFloat(Round(89 * words + 300 * sentences.val
                                            - 10 * characters, words))}

\* CalcGulpease of package it: the same function under another name.
CalcGulpease(s) ==
    IF ByteLen(s) = 0 THEN {Failure("Empty string.")}
    ELSE
    LET words == CountWords(s).val
    IN IF words = 0
       THEN {Failure("No words were parsed. Cannot calculate Gulpease readability index.")}
       ELSE
       LET characters == CountCharacters(s).val
           sentences == CountSentences(s)
       IN IF sentences.wraps = 1 THEN {Score(Beyond, {CountWords(s)})}
          ELSE {Score(u, {CountWords(s)}) :
                  u \in UintOfFloat(Round(89 * words + 300 * sentences.val
                                            - 10 * characters, words))}

----------------------------------------------------------------------------
(* The callers: one action per exported function, applied to the text (or  *)
(* score) chosen at the start.  A call may follow any call that returned;  *)
(* a call that panics ends the program.                                    *)

\* All strings of at most n runes of A.
StringsUpTo(A, n) == UNION {[1..k -> A] : k \in 0..n}

NoCall == [panic |-> FALSE, value |-> "none"]

\* The package-level variables of stats and ari, as their declarations
\* initialise them.
Tables == [abbreviations |-> abbreviations, ariTable |-> ariTable]

\* A program of one caller has no concurrent calls in flight.
NoCallers == << >>

Call(name, result) ==
    /\ ~ret.panic
    /\ op' = name
    /\ ret' = result
    /\ UNCHANGED <<text, score, calls, tables>>

\* ---- CountSentences ----
MaxSentenceLen == 6
SentenceRunes == {"b", "c", "e", "d", "D", ".", "!"}

DrSmith ==
    <<"D","r","."," ","S","m","i","t","h"," ","w","e","n","t"," ",
      "h","o","m","e",".">>

SentenceTexts ==
    StringsUpTo(SentenceRunes, MaxSentenceLen)
        \cup {DrSmith, ToLower(DrSmith), <<"D","R",".">>, <<"W","h","y","?">>}

InitSentences ==
    /\ text \in SentenceTexts
    /\ score = 0
    /\ op = "start"
    /\ ret = NoCall
    /\ calls = NoCallers
    /\ tables = Tables

DoCountSentences == Call("CountSentences", Returns(CountSentences(text)))

NextSentences == DoCountSentences

SpecSentences == InitSentences /\ [][NextSentences]_vars

\* ---- CountSyllables ----
MaxWordLen == 4
WordRunes == {"a", "e", "l", "s", "d", "t", "b", AStroke}

WordTexts ==
    StringsUpTo(WordRunes, MaxWordLen)
        \cup {<<"t","a","b","l","e">>, <<"w","a","n","t","e","d">>,
              <<"m","i","l","e","s">>, <<"T","A","B","L","E">>}

InitSyllables ==
    /\ text \in WordTexts
    /\ score = 0
    /\ op = "start"
    /\ ret = NoCall
    /\ calls = NoCallers
    /\ tables = Tables

DoCountSyllables == Call("CountSyllables", CountSyllables(text))

DoCountSyllablesNoGuard == Call("CountSyllablesNoGuard", CountSyllablesNoGuard(text))

NextSyllables == DoCountSyllables \/ DoCountSyllablesNoGuard

SpecSyllables == InitSyllables /\ [][NextSyllables]_vars

\* ---- CountSymbols, CountCharacters, CountWords, CountAllStats ----
MaxTextLen == 5
TextRunes == {"a", "1", ".", " ", "\n", AStroke}

StatsTexts ==
    StringsUpTo(TextRunes, MaxTextLen)
        \cup {<<"a", VerticalTab, "b">>, <<"a", NoBreakSpace, "b", NextLine>>,
              <<"a", "\t", "b", "\r", "\f", "c">>}

InitStats ==
    /\ text \in StatsTexts
    /\ score = 0
    /\ op = "start"
    /\ ret = NoCall
    /\ calls = NoCallers
    /\ tables = Tables

DoCountSymbols == Call("CountSymbols", Returns(CountSymbols(text)))

DoCountCharacters == Call("CountCharacters", Returns(CountCharacters(text)))

DoCountWords == Call("CountWords", Returns(CountWords(text)))

DoCountAllStats == Call("CountAllStats", CountAllStats(text))

NextStats ==
    \/ DoCountSymbols
    \/ DoCountCharacters
    \/ DoCountWords
    \/ DoCountAllStats

SpecStats == InitStats /\ [][NextStats]_vars

\* ---- CalculateCLI, CalculateAri, Gulpease, CalcGulpease ----
MaxFormulaLen == 5
FormulaRunes == {"a", " ", ".", "\n"}

LongWord == <<"a","a","a","a","a","a","a","a","a","a","a">>

FormulaTexts ==
    StringsUpTo(FormulaRunes, MaxFormulaLen)
        \cup {LongWord, SubSeq(LongWord, 1, 9), DrSmith, <<"1", "8", ".">>}

InitFormulas ==
    /\ text \in FormulaTexts
    /\ score = 0
    /\ op = "start"
    /\ ret = NoCall
    /\ calls = NoCallers
    /\ tables = Tables

DoCalculateCLI == \E r \in CalculateCLI(text) : Call("CalculateCLI", Returns(r))

DoCalculateAri == \E r \in CalculateAri(text) : Call("CalculateAri", Returns(r))

DoGulpease == \E r \in Gulpease(text) : Call("Gulpease", Returns(r))

DoCalcGulpease == \E r \in CalcGulpease(text) : Call("CalcGulpease", Returns(r))

NextFormulas ==
    \/ DoCalculateCLI
    \/ DoCalculateAri
    \/ DoGulpease
    \/ DoCalcGulpease

SpecFormulas == InitFormulas /\ [][NextFormulas]_vars

\* ---- ConvertAriToGrades ----
MaxScore == 60

InitGrades ==
    /\ text = <<>>
    /\ score \in -MaxScore..MaxScore
    /\ op = "start"
    /\ ret = NoCall
    /\ calls = NoCallers
    /\ tables = Tables

DoConvertAriToGrades ==
    /\ ~ret.panic
    /\ op' = "ConvertAriToGrades"
    /\ ret' = Returns(ConvertAriToGrades(score))
    /\ UNCHANGED <<text, score, calls, tables>>

NextGrades == DoConvertAriToGrades

SpecGrades == InitGrades /\ [][NextGrades]_vars

----------------------------------------------------------------------------
(* Concurrent callers.  Every caller is a goroutine that calls one exported *)
(* function on its own argument, again and again.  A step of a caller is    *)
(* one access to a package-level map (an iteration of the range over        *)
(* abbreviations, a lookup in ariTable) or a whole call of a function that  *)
(* reads nothing but its argument.  A panic ends the whole program.         *)

Callers == {"A", "B"}

\* The calls one caller makes, at most.
MaxCalls == 2

Requests ==
    { [fn |-> "CountSentences", arg |-> <<"i", ".", "e", ".", "g", ".">>],
      [fn |-> "CountSentences", arg |-> <<"W", "h", "y", "?">>],
      [fn |-> "CountSymbols", arg |-> <<"a", ".", ".", ".", "\n">>],
      [fn |-> "CountCharacters", arg |-> <<"a", "1", ".">>],
      [fn |-> "CountWords", arg |-> <<"a", "\n", "b">>],
      [fn |-> "CountSyllables", arg |-> <<"t", "a", "b", "l", "e">>],
      [fn |-> "CountSyllables", arg |-> << >>],
      [fn |-> "ConvertAriToGrades", arg |-> 5],
      [fn |-> "ConvertAriToGrades", arg |-> 20],
      [fn |-> "ConvertAriToGrades", arg |-> 0] }

\* A caller before its first call.  result and prev hold the value the last
\* call and the one before it returned, as sequences of at most one value.
Idle(r) ==
    [fn |-> r.fn, arg |-> r.arg, pc |-> "idle", n |-> 0, visited |-> {},
     raw |-> 0, acc |-> 0, result |-> << >>, prev |-> << >>]

InitConcurrent ==
    /\ text = << >>
    /\ score = 0
    /\ op = "start"
    /\ ret = NoCall
    /\ calls \in [Callers -> {Idle(r) : r \in Requests}]
    /\ tables = Tables

Running == \A c \in Callers : calls[c].pc # "panicked"

CanStart(c, fns) ==
    /\ Running
    /\ calls[c].fn \in fns
    /\ calls[c].pc \in {"idle", "returned"}
    /\ calls[c].n < MaxCalls

\* The caller as it enters a call: the value of the call before is kept.
Entered(c) ==
    [calls[c] EXCEPT !.n = @ + 1, !.prev = calls[c].result, !.result = << >>,
                     !.visited = {}, !.raw = 0, !.acc = 0]

Goes(c, rec) ==
    /\ calls' = [calls EXCEPT ![c] = rec]
    /\ UNCHANGED <<text, score, op, ret, tables>>

Return(rec, v) == [rec EXCEPT !.pc = "returned", !.result = <<v>>]

\* CountSentences up to the loop: the empty text returns 0, any other text
\* has its '.', '!' and '?' counted.
EnterCountSentences(c) ==
    /\ CanStart(c, {"CountSentences"})
    /\ LET s == calls[c].arg
       IN IF ByteLen(s) = 0
          THEN Goes(c, Return(Entered(c), ToUint(0)))
          ELSE Goes(c, [Entered(c) EXCEPT
                          !.pc = "range",
                          !.raw = Count(s, <<".">>) + Count(s, <<"!">>)
                                    + Count(s, <<"?">>)])

\* The body of the loop for one entry of the table.
AccumulateLast(acc, s, entry) ==
    LET count == Count(s, entry.key)
    IN IF count > 0 THEN count * entry.points ELSE acc

Accumulate(acc, s, entry) ==
    LET count == Count(s, entry.key)
    IN IF count > 0 THEN acc + count * entry.points ELSE acc

\* The keys the range may yield next.  Go fixes no order for the keys of a
\* map.  A key that does not occur in s leaves the sum as it is, whenever it
\* comes, so such keys are taken in the order of the table; a key that
\* occurs in s may come at any point of the loop.
NextKeys(c) ==
    LET left == DOMAIN tables.abbreviations \ calls[c].visited
        hits == {k \in left : Count(calls[c].arg, tables.abbreviations[k].key) > 0}
        rest == left \ hits
    IN hits \cup {k \in rest : \A j \in rest : k <= j}

\* One iteration of the range over abbreviations.
RangeAbbreviations(c) ==
    /\ Running
    /\ calls[c].pc = "range"
    /\ \E k \in NextKeys(c) :
          Goes(c, [calls[c] EXCEPT
                     !.visited = @ \cup {k},
                     !.acc = Accumulate(@, calls[c].arg, tables.abbreviations[k])])

\* The end of the loop: return uint(points + exclamations + questions
\* - pointsInAbbreviations).
ReturnCountSentences(c) ==
    /\ Running
    /\ calls[c].pc = "range"
    /\ calls[c].visited = DOMAIN tables.abbreviations
    /\ Goes(c, Return(calls[c], ToUint(calls[c].raw - calls[c].acc)))

\* A whole call of a function that reads its argument only.
CallOnArgument(c) ==
    /\ CanStart(c, {"CountSymbols", "CountCharacters", "CountWords"})
    /\ LET s == calls[c].arg
           v == CASE calls[c].fn = "CountSymbols" -> CountSymbols(s)
                  [] calls[c].fn = "CountCharacters" -> CountCharacters(s)
                  [] calls[c].fn = "CountWords" -> CountWords(s)
       IN Goes(c, Return(Entered(c), v))

\* A whole call of CountSyllables, which returns or panics.
CallCountSyllables(c) ==
    /\ CanStart(c, {"CountSyllables"})
    /\ LET r == CountSyllables(calls[c].arg)
       IN IF r.panic
          THEN Goes(c, [Entered(c) EXCEPT !.pc = "panicked"])
          ELSE Goes(c, Return(Entered(c), r.value))

\* ConvertAriToGrades up to the lookup: a score above 14 returns at once.
EnterConvertAriToGrades(c) ==
    /\ CanStart(c, {"ConvertAriToGrades"})
    /\ IF calls[c].arg > 14
       THEN Goes(c, Return(Entered(c), <<"22+", "Professor level">>))
       ELSE Goes(c, [Entered(c) EXCEPT !.pc = "lookup"])

\* The lookups of ConvertAriToGrades in ariTable.
LookupAriTable(c) ==
    /\ Running
    /\ calls[c].pc = "lookup"
    /\ IF calls[c].arg \notin DOMAIN tables.ariTable
       THEN Goes(c, Return(calls[c], <<"Unknown", "Unknown">>))
       ELSE Goes(c, Return(calls[c], <<tables.ariTable[calls[c].arg].age,
                                       tables.ariTable[calls[c].arg].gradeLevel>>))

NextConcurrent ==
    \E c \in Callers :
        \/ EnterCountSentences(c)
        \/ RangeAbbreviations(c)
        \/ ReturnCountSentences(c)
        \/ CallOnArgument(c)
        \/ CallCountSyllables(c)
        \/ EnterConvertAriToGrades(c)
        \/ LookupAriTable(c)

SpecConcurrent == InitConcurrent /\ [][NextConcurrent]_vars

----------------------------------------------------------------------------
(* The claims                                                              *)

EndsWith(s, suffix) ==
    Len(s) >= Len(suffix) /\ SubSeq(s, Len(s) - Len(suffix) + 1, Len(s)) = suffix

\* The number of '.', '!' and '?' of s.
RawCount(s) == Count(s, <<".">>) + Count(s, <<"!">>) + Count(s, <<"?">>)

\* C1.  CountSentences matches the abbreviations in any letter case: for
\* every text the result is the number of '.', '!' and '?' less, for every
\* key of the table, its points times its occurrences in the text whatever
\* their case; and CountSentences("Dr. Smith went home.") = 1.
C1_AbbreviationsInAnyCase ==
    op = "CountSentences" =>
        /\ ret.value = ToUint(RawCount(text) - PointsInAbbreviations(ToLower(text), 1))
        /\ (text = DrSmith => UintIs(ret.value, 1))

\* C2.  CountSentences returns a non-negative integer, rawCount less the
\* correction, never greater than rawCount, also when keys of the table
\* overlap in the text: the unsigned result does not wrap around.
C2_SentencesWithinRawCount ==
    op = "CountSentences" =>
        /\ ret.value.wraps = 0
        /\ ret.value.val >= 0
        /\ ret.value.val = RawCount(text) - PointsInAbbreviations(text, 1)
        /\ ret.value.val <= RawCount(text)

\* C3.  CountSyllables returns a value >= 1 for every string and never
\* fails with an index out of range (the empty string and short words
\* included).
C3_SyllablesAtLeastOne ==
    op \in {"CountSyllables", "CountSyllablesNoGuard"} =>
        /\ ~ret.panic
        /\ ret.value.wraps = 0
        /\ ret.value.val >= 1

RECURSIVE EllipsesIn(_, _, _)
\* The non-overlapping "..." of t from rune i on, run being the number of
\* '.' that immediately precede rune i and belong to no "..." yet.
EllipsesIn(t, i, run) ==
    IF i > Len(t) THEN 0
    ELSE IF t[i] # "." THEN EllipsesIn(t, i + 1, 0)
    ELSE IF run = 2 THEN 1 + EllipsesIn(t, i + 1, 0)
    ELSE EllipsesIn(t, i + 1, run + 1)

NewLinesIn(t) == Cardinality({i \in DOMAIN t : t[i] = "\n"})

\* C4.  For every non-empty text, CountCharacters <= CountSymbols <= the
\* number of runes, CountSymbols being runes - new lines - 2 * ("..."
\* occurrences, non-overlapping), and never negative.
C4_CharactersSymbolsScalars ==
    text # <<>> =>
        /\ op = "CountSymbols" =>
              /\ ret.value.wraps = 0
              /\ ret.value.val >= 0
              /\ ret.value.val = Len(text) - NewLinesIn(text) - 2 * EllipsesIn(text, 1, 0)
              /\ ret.value.val <= Len(text)
              /\ UintLeq(CountCharacters(text), ret.value.val)
        /\ op = "CountCharacters" =>
              /\ ret.value.wraps = 0
              /\ CountSymbols(text).wraps = 0
              /\ ret.value.val <= CountSymbols(text).val
        /\ (op = "CountAllStats" /\ ~ret.panic) =>
              /\ ret.value.Symbols.wraps = 0
              /\ ret.value.Characters.wraps = 0
              /\ ret.value.Characters.val <= ret.value.Symbols.val
              /\ ret.value.Symbols.val <= Len(text)

\* C4's case: the symbols of a text with a letter, a new line and a "...".
C4_Witness ==
    /\ op = "CountSymbols"
    /\ EllipsesIn(text, 1, 0) > 0
    /\ NewLinesIn(text) > 0
    /\ CountCharacters(text).val > 0
    /\ ret.value.val < Len(text)

FormulaOps == {"CalculateCLI", "CalculateAri", "Gulpease", "CalcGulpease"}

IsZero(u) == u.wraps = 0 /\ u.val = 0

\* C5.  Every formula validates before it divides: it fails, with no score,
\* on the empty text ("Empty string.", tested first) and on a text of no
\* words; CalculateAri fails also on a text of no sentences; and a formula
\* that returns a score divided by positive counts only.
C5_PreconditionsBeforeDividing ==
    op \in FormulaOps =>
        /\ ByteLen(text) = 0 =>
              ret.value.err = "Empty string." /\ ret.value.divisors = {}
        /\ (ByteLen(text) > 0 /\ IsZero(CountWords(text))) =>
              /\ ret.value.err \notin {"nil", "Empty string."}
              /\ ret.value.divisors = {}
        /\ (op = "CalculateAri" /\ IsZero(CountSentences(text))) =>
              ret.value.err # "nil" /\ ret.value.divisors = {}
        /\ ret.value.err # "nil" => ret.value.score = 0
        /\ ret.value.err = "nil" =>
              /\ ret.value.divisors # {}
              /\ \A d \in ret.value.divisors : ~IsZero(d)
              /\ ~IsZero(CountWords(text))

\* C5's case: CalculateAri refused a text that has words and no sentence.
C5_Witness ==
    /\ op = "CalculateAri"
    /\ ~IsZero(CountWords(text))
    /\ IsZero(CountSentences(text))
    /\ ret.value.err # "nil"

\* C6.  ConvertAriToGrades is total: a score of 1..14 has an entry in the
\* table and gets that entry's (age, grade), 5 giving ("9-10", "Forth
\* Grade"); a score above 14 gets ("22+", "Professor level"); a score of 0
\* or less gets ("Unknown", "Unknown").
C6_GradesTotal ==
    op = "ConvertAriToGrades" =>
        /\ score \in 1..14 =>
              /\ score \in DOMAIN ariTable
              /\ ret.value = <<ariTable[score].age, ariTable[score].gradeLevel>>
              /\ ret.value \notin {<<"Unknown", "Unknown">>, <<"22+", "Professor level">>}
        /\ score = 5 => ret.value = <<"9-10", "Forth Grade">>
        /\ score > 14 => ret.value = <<"22+", "Professor level">>
        /\ score <= 0 => ret.value = <<"Unknown", "Unknown">>

\* C6's case: the last score of the table was converted.
C6_Witness ==
    /\ op = "ConvertAriToGrades"
    /\ score = 14
    /\ ret.value = <<"18-22", "College student">>

\* C7.  For every non-empty text with W = CountWords > 0, Gulpease returns
\* 89 + (300*S - 10*C)/W rounded to the nearest whole number, also when
\* that value is negative: the unsigned result is that number.
C7_GulpeaseIsRoundedFormula ==
    (op \in {"Gulpease", "CalcGulpease"} /\ ByteLen(text) > 0
        /\ ~IsZero(CountWords(text)) /\ CountSentences(text).wraps = 0) =>
        /\ ret.value.err = "nil"
        /\ UintIs(ret.value.score,
                  Round(89 * CountWords(text).val + 300 * CountSentences(text).val
                          - 10 * CountCharacters(text).val,
                        CountWords(text).val))

RECURSIVE SyllablesOf(_)
\* The sum of the syllables of the words, each counted on its own.
SyllablesOf(words) ==
    IF words = <<>> THEN 0
    ELSE CountSyllables(Head(words)).value.val + SyllablesOf(Tail(words))

\* C8.  For every text CountAllStats returns the counts of the four
\* functions on the text; Syllables is the sum of CountSyllables over the
\* fields of the text, which are as many as Words, so Syllables >= Words.
C8_AllStatsFields ==
    op = "CountAllStats" =>
        /\ ~ret.panic
        /\ ret.value.Symbols = CountSymbols(text)
        /\ ret.value.Characters = CountCharacters(text)
        /\ ret.value.Words = CountWords(text)
        /\ ret.value.Sentences = CountSentences(text)
        /\ UintIs(ret.value.Syllables, SyllablesOf(Fields(text)))
        /\ UintIs(ret.value.Words, Len(Fields(text)))
        /\ ret.value.Syllables.val >= ret.value.Words.val

\* The count after the vowel groups and the final 'e' of a word.
AfterFinalE(word) ==
    VowelGroups(ToLower(word), 1, FALSE)
        - (IF EndsWith(word, <<"e">>) THEN 1 ELSE 0)

\* The last step of CountSyllables: a count of 0 becomes 1.
AtLeastOne(n) == IF n = 0 THEN 1 ELSE n

\* C9.  For a word of more than 2 characters that ends in "ed", the count
\* after the vowel groups and the final 'e' is incremented when the
\* character before "ed" is 't', decremented when it is a vowel, and left
\* as it is otherwise.
C9_EdSuffix ==
    (op = "CountSyllables" /\ ~ret.panic /\ Len(text) > 2
        /\ EndsWith(text, <<"e", "d">>)) =>
        LET before == text[Len(text) - 2]
            count == AfterFinalE(text)
        IN UintIs(ret.value,
                  AtLeastOne(IF before = "t" THEN count + 1
                             ELSE IF isVowel(before) THEN count - 1
                             ELSE count))

\* C10.  For a word of more than 2 characters that ends in "le" or "les",
\* the count is incremented exactly when the character just before the
\* suffix (third from the end for "le", fourth for "les") is a consonant;
\* "table" gives 2.
C10_LeSuffix ==
    (op = "CountSyllables" /\ ~ret.panic /\ Len(text) > 2) =>
        /\ EndsWith(text, <<"l", "e">>) =>
              UintIs(ret.value,
                     AtLeastOne(AfterFinalE(text)
                         + (IF isVowel(text[Len(text) - 2]) THEN 0 ELSE 1)))
        /\ (EndsWith(text, <<"l", "e", "s">>) /\ Len(text) > 3) =>
              UintIs(ret.value,
                     AtLeastOne(AfterFinalE(text)
                         + (IF isVowel(text[Len(text) - 3]) THEN 0 ELSE 1)))
        /\ text = <<"t", "a", "b", "l", "e">> => UintIs(ret.value, 2)

\* What the call returns when it runs alone, the range over abbreviations
\* taking the keys in the order of the table: the value, or nothing for a
\* call that panics.
Alone(fn, arg) ==
    CASE fn = "CountSentences" -> <<CountSentences(arg)>>
      [] fn = "CountSymbols" -> <<CountSymbols(arg)>>
      [] fn = "CountCharacters" -> <<CountCharacters(arg)>>
      [] fn = "CountWords" -> <<CountWords(arg)>>
      [] fn = "CountSyllables" ->
            IF CountSyllables(arg).panic THEN << >>
            ELSE <<CountSyllables(arg).value>>
      [] fn = "ConvertAriToGrades" -> <<ConvertAriToGrades(arg)>>

\* C11.  Under any interleaving of concurrent calls of the counting
\* functions and ConvertAriToGrades, the abbreviation table and the grade
\* table stay as initialised, and every call returns what the same call
\* returns alone: CountSentences whatever the order in which the range
\* yields the keys, and a repeated call what the call before it returned.
\* A call panics only if it panics alone.
C11_ConcurrentCallsAsAlone ==
    /\ tables = Tables
    /\ \A c \in Callers :
          /\ calls[c].pc = "returned" =>
                /\ calls[c].result = Alone(calls[c].fn, calls[c].arg)
                /\ calls[c].n > 1 => calls[c].prev = calls[c].result
          /\ calls[c].pc = "panicked" => Alone(calls[c].fn, calls[c].arg) = << >>

\* C11's case: a caller returned from its second CountSentences on a text
\* in which two keys occur, while another caller is inside the range, where
\* it reached the later key of the table before the earlier one.
C11_Witness ==
    \E c, d \in Callers :
        /\ c # d
        /\ calls[c].fn = "CountSentences"
        /\ calls[c].pc = "returned"
        /\ calls[c].n = 2
        /\ calls[c].result = <<ToUint(-1)>>
        /\ calls[d].pc = "range"
        /\ \E j, k \in DOMAIN tables.abbreviations :
              /\ j < k
              /\ Count(calls[d].arg, tables.abbreviations[j].key) > 0
              /\ k \in calls[d].visited
              /\ j \notin calls[d].visited

============================================================================
